---- MODULE Spec2Model ----
(***************************************************************************)
(* TextualMOC: the two browser scripts of the repository.                  *)
(*   page = "game"  : the timed "find the target region" game (README.md)  *)
(*   page = "popup" : the popup demo (AladinGame/aladin_game_d1/script.js) *)
(* A page runs exactly one of the scripts; every handler runs to its end   *)
(* on the single UI thread, so each handler is one action.                 *)
(***************************************************************************)
EXTENDS Integers, Sequences, FiniteSets, TLC

\* ------------------------------------------------------------ bounds
\* Number of regions in moc/mocDataList.json.  A shorter list behaves as this
\* one does on the cells outside its last regions.
MaxRegions == 2
\* Number of interval ids the browser can hand out at the same time.
MaxTimers == 2

\* ------------------------------------------------------------ program constants
\* `let timeLeft = 30` / `timeLeft = 30` in startGame.
GameDuration == 30
\* `score += 10`.
TargetPoints == 10
\* `if (timeLeft <= 5)` in the timer callback.
CountdownFrom == 5

\* ------------------------------------------------------------ inputs
\* A pointer event carries a sky position or null.  A sky position is a cell
\* number; cell c lies in region i iff bit i-1 of c is set, so that every
\* combination of overlapping regions has a cell, and cell 0 lies in none.
Null == -1
Pow2(n) == IF n = 0 THEN 1 ELSE IF n = 1 THEN 2 ELSE IF n = 2 THEN 4 ELSE IF n = 3 THEN 8 ELSE 16
Cells == 0 .. (Pow2(MaxRegions) - 1)
CellsOf(i) == {c \in Cells : (c \div Pow2(i - 1)) % 2 = 1}

\* Texts are numbered; NoText is the empty string.
NoText == 0

\* The keys of a MOC's JSON that hold geometry (one cell set per HEALPix order).
OrderKeys == {"o3"}

\* One entry of moc/mocDataList.json: geometry under the order key "o3",
\* plus text and isTarget.
MocWithText(i, target) == [o3 |-> CellsOf(i), text |-> i, isTarget |-> target]

\* moc/mocData.json of the popup page: geometry, with or without a text.
MocData(i, hasText, txt) ==
  IF hasText THEN [o3 |-> CellsOf(i), text |-> txt] ELSE [o3 |-> CellsOf(i)]

\* The same file with one more field that is not geometry.
WithFlag(mocWithText, extra) ==
  IF extra THEN mocWithText @@ [isTarget |-> TRUE] ELSE mocWithText

VARIABLES
  page,             \* which script the page runs
  json,             \* the fetched file: moc/mocDataList.json or moc/mocData.json
  \* --- both scripts
  cursorInMOC,      \* let cursorInMOC
  popupText,        \* popup.textContent
  popupDisplay,     \* popup.style.display
  played,           \* cues started by the most recent handler run
  consoleLog,       \* messages logged by the most recent handler run
  \* --- game
  mocList,          \* let mocList
  gameStarted,      \* let gameStarted
  score,            \* let score
  timeLeft,         \* let timeLeft
  timerInterval,    \* let timerInterval (0: undefined)
  timers,           \* the browser's active interval ids
  scoreText,        \* scoreDisplay.textContent
  timerColor,       \* timerDisplay.style.color
  timeText,         \* timeElement.textContent
  countdownDisplay, \* countdownDisplay.style.display
  gameStatus,       \* gameStatusDisplay.textContent
  startDisabled,    \* startGameButton.disabled
  \* --- popup
  soundsEnabled,    \* let soundsEnabled
  soundToggleText,  \* soundToggle.textContent
  moc,              \* let moc
  mocText,          \* let mocText
  \* --- history (not program state)
  history,          \* whether the history below is kept
  lastPos,          \* position of the most recent non-null pointer event
  ticks,            \* timer ticks since the last accepted start
  ev,               \* the most recent event
  pre,              \* the program state before the most recent event
  prePos            \* lastPos before the most recent event

progvars == <<cursorInMOC, popupText, popupDisplay, played, consoleLog, mocList,
              gameStarted, score, timeLeft, timerInterval, timers, scoreText,
              timerColor, timeText, countdownDisplay, gameStatus,
              startDisabled, soundsEnabled, soundToggleText, moc, mocText>>
vars == <<page, json, progvars, history, lastPos, ticks, ev, pre, prePos>>

\* The program state as one record; handlers are functions from state to state.
State ==
  [cursorInMOC |-> cursorInMOC, popupText |-> popupText, popupDisplay |-> popupDisplay,
   played |-> played, consoleLog |-> consoleLog, mocList |-> mocList,
   gameStarted |-> gameStarted, score |-> score, timeLeft |-> timeLeft,
   timerInterval |-> timerInterval, timers |-> timers, scoreText |-> scoreText,
   timerColor |-> timerColor, timeText |-> timeText,
   countdownDisplay |-> countdownDisplay,
   gameStatus |-> gameStatus, startDisabled |-> startDisabled,
   soundsEnabled |-> soundsEnabled, soundToggleText |-> soundToggleText,
   moc |-> moc, mocText |-> mocText]

SetState(s) ==
  /\ cursorInMOC' = s.cursorInMOC /\ popupText' = s.popupText
  /\ popupDisplay' = s.popupDisplay /\ played' = s.played
  /\ consoleLog' = s.consoleLog /\ mocList' = s.mocList
  /\ gameStarted' = s.gameStarted /\ score' = s.score /\ timeLeft' = s.timeLeft
  /\ timerInterval' = s.timerInterval /\ timers' = s.timers
  /\ scoreText' = s.scoreText /\ timerColor' = s.timerColor
  /\ timeText' = s.timeText /\ countdownDisplay' = s.countdownDisplay
  /\ gameStatus' = s.gameStatus
  /\ startDisabled' = s.startDisabled /\ soundsEnabled' = s.soundsEnabled
  /\ soundToggleText' = s.soundToggleText /\ moc' = s.moc /\ mocText' = s.mocText

\* The program is in state s.
InState(s) ==
  /\ cursorInMOC = s.cursorInMOC /\ popupText = s.popupText
  /\ popupDisplay = s.popupDisplay /\ played = s.played
  /\ consoleLog = s.consoleLog /\ mocList = s.mocList
  /\ gameStarted = s.gameStarted /\ score = s.score /\ timeLeft = s.timeLeft
  /\ timerInterval = s.timerInterval /\ timers = s.timers
  /\ scoreText = s.scoreText /\ timerColor = s.timerColor
  /\ timeText = s.timeText /\ countdownDisplay = s.countdownDisplay
  /\ gameStatus = s.gameStatus
  /\ startDisabled = s.startDisabled /\ soundsEnabled = s.soundsEnabled
  /\ soundToggleText = s.soundToggleText /\ moc = s.moc /\ mocText = s.mocText

\* A handler run starts with nothing played and nothing logged.
Fresh(s) == [s EXCEPT !.played = <<>>, !.consoleLog = <<>>]

\* ------------------------------------------------------------ external library
\* moc.contains(ra, dec): the point lies in one of the cell sets of the
\* geometry the MOC was built from.
Contains(m, pos) == \E k \in (DOMAIN m) \cap OrderKeys : pos \in m[k]

\* audio.play(): starts the cue; a rejected promise is caught and logged.
Play(s, cue, ok) ==
  [s EXCEPT !.played = Append(@, cue),
            !.consoleLog = IF ok THEN @ ELSE Append(@, cue)]

\* setInterval: the browser hands out an id that is not in use.
NewTimer(s) == CHOOSE id \in 1 .. MaxTimers : id \notin s.timers

\* ------------------------------------------------------------ game (README.md)
\* Fault variant: the game's splitter drops text only, as the popup's does.
processMOCWithTextGameTextOnly(mocWithText) ==
  [key \in (DOMAIN mocWithText) \ {"text"} |-> mocWithText[key]]

\* processMOCWithText of the game: drops text and isTarget.
processMOCWithTextGame(mocWithText) ==
  [key \in (DOMAIN mocWithText) \ {"text", "isTarget"} |-> mocWithText[key]]

\* mocDataList.map(...): one {moc, text, isTarget} item per entry.
LoadMocList(mocDataList) ==
  [i \in 1 .. Len(mocDataList) |->
     [moc |-> processMOCWithTextGame(mocDataList[i]),
      text |-> mocDataList[i].text,
      isTarget |-> mocDataList[i].isTarget]]

TimesUp(sc) == <<"Time's up! Final score: ", sc>>
Congratulations == <<"Congratulations! You found the Large Magellanic Cloud!">>
InProgress == <<"Game in progress...">>

\* Fault variant: endGame that forgets clearInterval.
endGameNoClear(s, message) ==
  [s EXCEPT !.gameStarted = FALSE,
            !.startDisabled = FALSE,
            !.gameStatus = message,
            !.countdownDisplay = "none"]

\* Fault variant: endGame that leaves the large countdown on screen.
endGameKeepCountdown(s, message) ==
  [s EXCEPT !.timers = @ \ {s.timerInterval},
            !.gameStarted = FALSE,
            !.startDisabled = FALSE,
            !.gameStatus = message]

endGame(s, message) ==
  [s EXCEPT !.timers = @ \ {s.timerInterval},
            !.gameStarted = FALSE,
            !.startDisabled = FALSE,
            !.gameStatus = message,
            !.countdownDisplay = "none"]

\* Fault variant: startGame keeps the score of the previous game.
startGameKeepScore(s) ==
  IF s.gameStarted THEN s ELSE
  [s EXCEPT !.gameStarted = TRUE,
            !.timeLeft = GameDuration,
            !.scoreText = s.score,
            !.timerColor = "white",
            !.timeText = GameDuration,
            !.countdownDisplay = "none",
            !.gameStatus = InProgress,
            !.startDisabled = TRUE,
            !.timerInterval = NewTimer(s),
            !.timers = @ \cup {NewTimer(s)}]

\* Fault variant: startGame without the gameStarted guard.
startGameNoGuard(s) ==
  [s EXCEPT !.gameStarted = TRUE,
            !.score = 0,
            !.timeLeft = GameDuration,
            !.scoreText = 0,
            !.timerColor = "white",
            !.timeText = GameDuration,
            !.countdownDisplay = "none",
            !.gameStatus = InProgress,
            !.startDisabled = TRUE,
            !.timerInterval = NewTimer(s),
            !.timers = @ \cup {NewTimer(s)}]

\* Fault variant: startGame also hides the popup, leaving cursorInMOC alone.
startGameHidesPopup(s) ==
  IF s.gameStarted THEN s ELSE
  [s EXCEPT !.gameStarted = TRUE,
            !.score = 0,
            !.timeLeft = GameDuration,
            !.scoreText = 0,
            !.timerColor = "white",
            !.timeText = GameDuration,
            !.countdownDisplay = "none",
            !.popupDisplay = "none",
            !.gameStatus = InProgress,
            !.startDisabled = TRUE,
            !.timerInterval = NewTimer(s),
            !.timers = @ \cup {NewTimer(s)}]

startGame(s) ==
  IF s.gameStarted THEN s ELSE
  [s EXCEPT !.gameStarted = TRUE,
            !.score = 0,
            !.timeLeft = GameDuration,
            !.scoreText = 0,
            !.timerColor = "white",
            !.timeText = GameDuration,
            !.countdownDisplay = "none",
            !.gameStatus = InProgress,
            !.startDisabled = TRUE,
            !.timerInterval = NewTimer(s),
            !.timers = @ \cup {NewTimer(s)}]

\* Fault variant: the callback ends the game one tick late (timeLeft < 0).
timerCallbackLate(s) ==
  LET s1 == [s EXCEPT !.timeLeft = @ - 1, !.timeText = s.timeLeft - 1]
      s2 == IF s1.timeLeft <= CountdownFrom
              THEN [s1 EXCEPT !.timerColor = "", !.countdownDisplay = "block"]
              ELSE [s1 EXCEPT !.timerColor = "white", !.countdownDisplay = "none"]
  IN  IF s2.timeLeft < 0 THEN endGame(s2, TimesUp(s2.score)) ELSE s2

\* Fault variant: the callback never ends the game.
timerCallbackNoEnd(s) ==
  LET s1 == [s EXCEPT !.timeLeft = @ - 1, !.timeText = s.timeLeft - 1]
  IN  IF s1.timeLeft <= CountdownFrom
        THEN [s1 EXCEPT !.timerColor = "", !.countdownDisplay = "block"]
        ELSE [s1 EXCEPT !.timerColor = "white", !.countdownDisplay = "none"]

\* The setInterval callback.  The number written into the large countdown
\* (countdownDisplay.textContent) is not modelled: nothing reads it.
timerCallback(s) ==
  LET s1 == [s EXCEPT !.timeLeft = @ - 1, !.timeText = s.timeLeft - 1]
      s2 == IF s1.timeLeft <= CountdownFrom
              THEN [s1 EXCEPT !.timerColor = "", !.countdownDisplay = "block"]
              ELSE [s1 EXCEPT !.timerColor = "white", !.countdownDisplay = "none"]
  IN  IF s2.timeLeft <= 0 THEN endGame(s2, TimesUp(s2.score)) ELSE s2

\* Fault variant: the target branch does not test cursorInMOC.
forEachItemTargetAlways(sf, item, pos, ok) ==
  LET s == sf.s IN
  IF Contains(item.moc, pos)
    THEN LET s1 ==
               IF item.isTarget
                 THEN endGame(
                        Play([s EXCEPT !.score = @ + TargetPoints,
                                       !.scoreText = s.score + TargetPoints,
                                       !.popupText = item.text,
                                       !.popupDisplay = "block"], "success", ok),
                        Congratulations)
               ELSE IF ~item.isTarget /\ ~s.cursorInMOC
                 THEN Play([s EXCEPT !.popupText = item.text,
                                     !.popupDisplay = "block"], "error", ok)
               ELSE s
         IN [s |-> [s1 EXCEPT !.cursorInMOC = TRUE], found |-> TRUE]
    ELSE sf

\* Fault variant: the non-target branch does not test cursorInMOC, so a later
\* containing region overwrites the popup of an earlier one.
forEachItemLastWins(sf, item, pos, ok) ==
  LET s == sf.s IN
  IF Contains(item.moc, pos)
    THEN LET s1 ==
               IF item.isTarget /\ ~s.cursorInMOC
                 THEN endGame(
                        Play([s EXCEPT !.score = @ + TargetPoints,
                                       !.scoreText = s.score + TargetPoints,
                                       !.popupText = item.text,
                                       !.popupDisplay = "block"], "success", ok),
                        Congratulations)
               ELSE IF ~item.isTarget
                 THEN Play([s EXCEPT !.popupText = item.text,
                                     !.popupDisplay = "block"], "error", ok)
               ELSE s
         IN [s |-> [s1 EXCEPT !.cursorInMOC = TRUE], found |-> TRUE]
    ELSE sf

\* Fault variant: a failing play() aborts the handler run at the call, so
\* what follows it (endGame, cursorInMOC = true) does not happen.
forEachItemPlayThrows(sf, item, pos, ok) ==
  LET s == sf.s IN
  IF Contains(item.moc, pos)
    THEN LET shown == [s EXCEPT !.popupText = item.text, !.popupDisplay = "block"]
             s1 ==
               IF item.isTarget /\ ~s.cursorInMOC
                 THEN LET won == Play([shown EXCEPT !.score = @ + TargetPoints,
                                                    !.scoreText = s.score + TargetPoints],
                                      "success", ok)
                      IN IF ok THEN endGame(won, Congratulations) ELSE won
               ELSE IF ~item.isTarget /\ ~s.cursorInMOC
                 THEN Play(shown, "error", ok)
               ELSE s
         IN [s |-> [s1 EXCEPT !.cursorInMOC = (ok \/ s.cursorInMOC \/ s1.played = <<>>)],
             found |-> TRUE]
    ELSE sf

\* The body of mocList.forEach for one item; found is the handler's local.
forEachItem(sf, item, pos, ok) ==
  LET s == sf.s IN
  IF Contains(item.moc, pos)
    THEN LET s1 ==
               IF item.isTarget /\ ~s.cursorInMOC
                 THEN endGame(
                        Play([s EXCEPT !.score = @ + TargetPoints,
                                       !.scoreText = s.score + TargetPoints,
                                       !.popupText = item.text,
                                       !.popupDisplay = "block"], "success", ok),
                        Congratulations)
               ELSE IF ~item.isTarget /\ ~s.cursorInMOC
                 THEN Play([s EXCEPT !.popupText = item.text,
                                     !.popupDisplay = "block"], "error", ok)
               ELSE s
         IN [s |-> [s1 EXCEPT !.cursorInMOC = TRUE], found |-> TRUE]
    ELSE sf

RECURSIVE forEach(_, _, _, _)
forEach(sf, i, pos, ok) ==
  IF i > Len(sf.s.mocList) THEN sf
  ELSE forEach(forEachItem(sf, sf.s.mocList[i], pos, ok), i + 1, pos, ok)

\* Fault variant: leaving all regions clears the flag but keeps the popup.
mouseMoveGameNoHide(s, pos, ok) ==
  IF pos = Null \/ ~s.gameStarted THEN s
  ELSE LET r == forEach([s |-> s, found |-> FALSE], 1, pos, ok)
       IN IF ~r.found /\ r.s.cursorInMOC
            THEN [r.s EXCEPT !.cursorInMOC = FALSE]
            ELSE r.s

\* Fault variant: the handler tests the position but not gameStarted.
mouseMoveGameAnyTime(s, pos, ok) ==
  IF pos = Null THEN s
  ELSE LET r == forEach([s |-> s, found |-> FALSE], 1, pos, ok)
       IN IF ~r.found /\ r.s.cursorInMOC
            THEN [r.s EXCEPT !.cursorInMOC = FALSE, !.popupDisplay = "none"]
            ELSE r.s

\* aladin.on('mouseMove') of the game.
mouseMoveGame(s, pos, ok) ==
  IF pos = Null \/ ~s.gameStarted THEN s
  ELSE LET r == forEach([s |-> s, found |-> FALSE], 1, pos, ok)
       IN IF ~r.found /\ r.s.cursorInMOC
            THEN [r.s EXCEPT !.cursorInMOC = FALSE, !.popupDisplay = "none"]
            ELSE r.s

\* ------------------------------------------------------------ popup (script.js)
\* Fault variant: the popup's splitter also writes the text into the popup.
processMOCWithTextIntoPopup(s, mocWithText) ==
  [s EXCEPT !.mocText = IF "text" \in DOMAIN mocWithText THEN mocWithText.text ELSE @,
            !.popupText = IF "text" \in DOMAIN mocWithText THEN mocWithText.text ELSE @,
            !.moc = [key \in (DOMAIN mocWithText) \ {"text"} |-> mocWithText[key]]]

\* processMOCWithText of the popup: the text goes to the global mocText, the
\* rest is returned.  The result is the state after the call, with the
\* returned record in moc (the caller builds the MOC from it).
processMOCWithText(s, mocWithText) ==
  [s EXCEPT !.mocText = IF "text" \in DOMAIN mocWithText THEN mocWithText.text ELSE @,
            !.moc = [key \in (DOMAIN mocWithText) \ {"text"} |-> mocWithText[key]]]

\* fetch(...).then(moc_with_text => ...): split, build the MOC, add it.
LoadMoc(s, mocWithText) == processMOCWithText(s, mocWithText)

toggleSounds(s) ==
  [s EXCEPT !.soundsEnabled = ~@,
            !.soundToggleText = IF ~s.soundsEnabled THEN "Disable Sounds" ELSE "Enable Sounds"]

\* Fault variant: the popup is shown on entry but never hidden on leaving.
mouseMoveNoHide(s, pos, ok) ==
  IF pos = Null THEN s
  ELSE LET isInMOC == Contains(s.moc, pos) IN
       IF isInMOC /\ ~s.cursorInMOC
         THEN LET s1 == [s EXCEPT !.cursorInMOC = TRUE, !.popupDisplay = "block",
                                  !.popupText = s.mocText]
              IN IF s1.soundsEnabled THEN Play(s1, "enter", ok) ELSE s1
       ELSE IF ~isInMOC /\ s.cursorInMOC
         THEN LET s1 == [s EXCEPT !.cursorInMOC = FALSE]
              IN IF s1.soundsEnabled THEN Play(s1, "exit", ok) ELSE s1
       ELSE s

\* Fault variant: the cues ignore soundsEnabled.
mouseMoveAlwaysPlays(s, pos, ok) ==
  IF pos = Null THEN s
  ELSE LET isInMOC == Contains(s.moc, pos) IN
       IF isInMOC /\ ~s.cursorInMOC
         THEN Play([s EXCEPT !.cursorInMOC = TRUE, !.popupDisplay = "block",
                             !.popupText = s.mocText], "enter", ok)
       ELSE IF ~isInMOC /\ s.cursorInMOC
         THEN Play([s EXCEPT !.cursorInMOC = FALSE, !.popupDisplay = "none"], "exit", ok)
       ELSE s

\* aladin.on('mouseMove') of the popup.
mouseMove(s, pos, ok) ==
  IF pos = Null THEN s
  ELSE LET isInMOC == Contains(s.moc, pos) IN
       IF isInMOC /\ ~s.cursorInMOC
         THEN LET s1 == [s EXCEPT !.cursorInMOC = TRUE, !.popupDisplay = "block",
                                  !.popupText = s.mocText]
              IN IF s1.soundsEnabled THEN Play(s1, "enter", ok) ELSE s1
       ELSE IF ~isInMOC /\ s.cursorInMOC
         THEN LET s1 == [s EXCEPT !.cursorInMOC = FALSE, !.popupDisplay = "none"]
              IN IF s1.soundsEnabled THEN Play(s1, "exit", ok) ELSE s1
       ELSE s

\* ------------------------------------------------------------ initial states
Html == -1   \* a text the page's HTML sets, not the script

\* The module-level initialisers.  The popup and the large countdown start
\* hidden and the start button enabled: the page's markup and style sheet set
\* these, the scripts only change them.

Idle ==
  [cursorInMOC |-> FALSE, popupText |-> NoText, popupDisplay |-> "none",
   played |-> <<>>, consoleLog |-> <<>>, mocList |-> <<>>,
   gameStarted |-> FALSE, score |-> 0, timeLeft |-> GameDuration,
   timerInterval |-> 0, timers |-> {}, scoreText |-> Html,
   timerColor |-> "", timeText |-> Html,
   countdownDisplay |-> "none",
   gameStatus |-> <<>>, startDisabled |-> FALSE,
   soundsEnabled |-> FALSE, soundToggleText |-> "Enable Sounds",
   moc |-> <<>>, mocText |-> NoText]

\* The game page once the region list is loaded and the handlers registered.
GameInit ==
  \E target \in [1 .. MaxRegions -> BOOLEAN] :
    /\ page = "game"
    /\ json = [i \in 1 .. MaxRegions |-> MocWithText(i, target[i])]
    /\ InState([Idle EXCEPT
         !.mocList = LoadMocList([i \in 1 .. MaxRegions |-> MocWithText(i, target[i])])])

\* The popup page once the region is loaded and the handlers registered.
PopupInit ==
  \E i \in 1 .. MaxRegions : \E hasText, extra \in BOOLEAN : \E txt \in 1 .. MaxRegions :
    /\ page = "popup"
    /\ json = WithFlag(MocData(i, hasText, txt), extra)
    /\ InState(LoadMoc(Idle, WithFlag(MocData(i, hasText, txt), extra)))

PageLoaded ==
  /\ (GameInit \/ PopupInit)
  /\ lastPos = Null /\ ticks = 0
  /\ ev = [kind |-> "load", pos |-> Null, ok |-> TRUE]
  /\ pre = Idle      \* the state before the fetch callback ran
  /\ prePos = Null

Init == PageLoaded /\ history = TRUE

\* The same pages with the history switched off: ev, pre, prePos and lastPos
\* keep their initial values, which leaves the program's own state graph.
InitNoHistory == PageLoaded /\ history = FALSE

\* ------------------------------------------------------------ actions
Record(kind, pos, ok) ==
  /\ IF history
       THEN /\ ev' = [kind |-> kind, pos |-> pos, ok |-> ok]
            /\ pre' = State
            /\ prePos' = lastPos
            /\ lastPos' = IF pos = Null THEN lastPos ELSE pos
       ELSE UNCHANGED <<ev, pre, prePos, lastPos>>
  /\ page' = page /\ json' = json /\ history' = history

\* The outcomes of play() in a handler run that ends in s: the promise
\* resolves or is rejected; a run that plays nothing has one outcome.
PlayOutcomes(s) == IF s.played = <<>> THEN {TRUE} ELSE BOOLEAN

\* A click on the start button: startGame, a no-op when a game is running.
StartGame ==
  /\ page = "game"
  /\ Cardinality(timers) < MaxTimers
  /\ SetState(startGame(Fresh(State)))
  /\ ticks' = IF gameStarted THEN ticks ELSE 0
  /\ Record("start", Null, TRUE)

\* One firing of an active interval.
Tick ==
  /\ page = "game"
  /\ \E id \in timers :
       /\ SetState(timerCallback(Fresh(State)))
       /\ ticks' = ticks + 1
       /\ Record("tick", Null, TRUE)

\* A pointer-move event of the viewer, with a position or null.
MouseMoveGame ==
  /\ page = "game"
  /\ \E pos \in Cells \cup {Null} :
     \E ok \in PlayOutcomes(mouseMoveGame(Fresh(State), pos, TRUE)) :
       /\ SetState(mouseMoveGame(Fresh(State), pos, ok))
       /\ ticks' = ticks
       /\ Record("move", pos, ok)

\* A click on the sound toggle of the popup page.
ToggleSounds ==
  /\ page = "popup"
  /\ SetState(toggleSounds(Fresh(State)))
  /\ ticks' = ticks
  /\ Record("toggle", Null, TRUE)

\* A pointer-move event of the popup page's viewer.
MouseMove ==
  /\ page = "popup"
  /\ \E pos \in Cells \cup {Null} :
     \E ok \in PlayOutcomes(mouseMove(Fresh(State), pos, TRUE)) :
       /\ SetState(mouseMove(Fresh(State), pos, ok))
       /\ ticks' = ticks
       /\ Record("move", pos, ok)

Next == StartGame \/ Tick \/ MouseMoveGame \/ ToggleSounds \/ MouseMove

Spec == Init /\ [][Next]_vars

\* An active interval keeps firing: the browser runs its callback every second
\* for as long as it is not cleared, whatever other events arrive.
FairSpec == InitNoHistory /\ [][Next]_vars /\ WF_vars(Tick)

\* ------------------------------------------------------------ claims
\* Region containment of a position, in list order.
InRegion(i, pos) == pos # Null /\ Contains(mocList[i].moc, pos)
InNoRegion(pos) == \A i \in 1 .. Len(mocList) : ~InRegion(i, pos)
FirstContaining(pos) ==
  IF pos = Null \/ InNoRegion(pos) THEN 0
  ELSE CHOOSE i \in 1 .. Len(mocList) :
         InRegion(i, pos) /\ \A j \in 1 .. (i - 1) : ~InRegion(j, pos)
FirstIsTarget(pos) == FirstContaining(pos) # 0 /\ mocList[FirstContaining(pos)].isTarget
FirstIsNonTarget(pos) == FirstContaining(pos) # 0 /\ ~mocList[FirstContaining(pos)].isTarget
SessionEnded == ~gameStarted /\ timers = {} /\ ~startDisabled
GameMove == page = "game" /\ ev.kind = "move" /\ ev.pos # Null

\* C1: during a running session, a pointer move from a position outside the
\* target region to a position inside it (here: one whose first containing
\* region is the target) adds exactly 10 to the score and ends the session,
\* whatever happened before.
C1_TargetEntryScoresAndEnds ==
  (GameMove /\ pre.gameStarted /\ FirstIsTarget(ev.pos)
     /\ prePos # Null /\ ~(\E i \in 1 .. Len(mocList) : mocList[i].isTarget /\ InRegion(i, prePos)))
  => (score = pre.score + TargetPoints /\ SessionEnded)

\* C2 (as stated): a pointer move to a position in no region leaves the popup
\* hidden, whether or not a session is running.
C2_LeavingAlwaysHides ==
  (GameMove /\ InNoRegion(ev.pos)) => popupDisplay = "none"

\* C2 (amended): while a session is running, a pointer move to a position in
\* no region leaves the popup hidden and the inside flag false, whatever they
\* were before; while no session is running the move changes neither.
C2_LeavingHidesWhileRunning ==
  (GameMove /\ InNoRegion(ev.pos))
  => IF pre.gameStarted
       THEN popupDisplay = "none" /\ ~cursorInMOC
       ELSE popupDisplay = pre.popupDisplay /\ cursorInMOC = pre.cursorInMOC

C2_Witness ==
  /\ GameMove /\ InNoRegion(ev.pos) /\ pre.gameStarted
  /\ pre.popupDisplay = "block" /\ pre.cursorInMOC /\ popupDisplay = "none"

\* C3: the seconds-remaining counter is 30 minus the ticks since start; it is
\* zero exactly when 30 ticks have fired, and the 30th tick ends the session
\* with the time's-up message.
C3_CountdownExact ==
  page = "game" =>
    /\ timeLeft = GameDuration - ticks
    /\ (timeLeft = 0 <=> ticks = GameDuration)
    /\ (timeLeft = 0 => SessionEnded /\ gameStatus = TimesUp(score))
    /\ (gameStatus = TimesUp(score) => timeLeft = 0)

C3_Witness ==
  /\ page = "game" /\ ev.kind = "tick" /\ ticks = GameDuration /\ timeLeft = 0
  /\ pre.gameStarted /\ pre.timeLeft = 1 /\ ~gameStarted /\ gameStatus = TimesUp(score)

\* C4: an accepted start click leaves score = 0, seconds remaining = 30,
\* game-running = true and the pointer-inside flag = false.
C4_StartResetsSession ==
  (page = "game" /\ ev.kind = "start" /\ ~pre.gameStarted)
  => (score = 0 /\ timeLeft = GameDuration /\ gameStarted /\ ~cursorInMOC)

\* C5: in a running session with the inside flag false, a pointer move onto a
\* position whose first containing region is a non-target shows the popup with
\* that region's text, plays the error cue and does not end the session.
C5_NonTargetEntry ==
  (GameMove /\ pre.gameStarted /\ ~pre.cursorInMOC /\ FirstIsNonTarget(ev.pos))
  => /\ popupDisplay = "block"
     /\ popupText = mocList[FirstContaining(ev.pos)].text
     /\ played = <<"error">>
     /\ gameStarted /\ startDisabled
     /\ score = pre.score /\ timeLeft = pre.timeLeft
     /\ timers = pre.timers /\ timers # {}
     /\ gameStatus = pre.gameStatus

C5_Witness ==
  /\ GameMove /\ pre.gameStarted /\ ~pre.cursorInMOC /\ FirstIsNonTarget(ev.pos)
  /\ played = <<"error">> /\ gameStarted /\ popupDisplay = "block"

C7_RunningTimerButton ==
  page = "game" =>
    /\ gameStarted <=> timers # {}
    /\ gameStarted <=> startDisabled
    /\ timers \subseteq {timerInterval}
    /\ timeLeft \in 0 .. GameDuration

C7_Witness ==
  /\ page = "game" /\ GameMove /\ pre.gameStarted /\ pre.timers # {}
  /\ ~gameStarted /\ timers = {} /\ ~startDisabled /\ gameStatus = Congratulations

\* C8: the large countdown is visible iff a session is running and the
\* seconds remaining are between 1 and 5.
C8_CountdownVisible ==
  page = "game" =>
    (countdownDisplay = "block" <=> (gameStarted /\ timeLeft \in 1 .. CountdownFrom))

C8_Witness ==
  /\ page = "game" /\ GameMove /\ pre.countdownDisplay = "block"
  /\ pre.timeLeft \in 1 .. CountdownFrom /\ ~gameStarted /\ countdownDisplay = "none"

\* C9: in the popup script the popup is visible iff the cursor-inside flag is
\* true, the flag is the containment of the most recent non-null position
\* (false if none), and a visible popup shows the region's text.
C9_PopupFollowsContainment ==
  page = "popup" =>
    /\ popupDisplay = "block" <=> cursorInMOC
    /\ cursorInMOC <=> (lastPos # Null /\ lastPos \in json.o3)
    /\ popupDisplay = "block" =>
         popupText = (IF "text" \in DOMAIN json THEN json.text ELSE NoText)

C9_Witness ==
  /\ page = "popup" /\ ev.kind = "move" /\ ev.pos = Null /\ pre.cursorInMOC
  /\ popupDisplay = "block" /\ "text" \in DOMAIN json /\ popupText = json.text

\* C10: in the popup script the enter cue is played only by a pointer event
\* that turns the flag on, the exit cue only by one that turns it off, none by
\* an event that keeps the flag, none while sounds are disabled; toggling
\* sounds changes only the sounds flag and its label.
C10_CuesOnTransitionsOnly ==
  page = "popup" =>
    /\ ev.kind = "move" =>
         /\ played \in {<<>>, <<"enter">>, <<"exit">>}
         /\ played = <<"enter">> => (~pre.cursorInMOC /\ cursorInMOC)
         /\ played = <<"exit">> => (pre.cursorInMOC /\ ~cursorInMOC)
         /\ cursorInMOC = pre.cursorInMOC => played = <<>>
         /\ ~pre.soundsEnabled => played = <<>>
         /\ soundsEnabled = pre.soundsEnabled
    /\ ev.kind = "toggle" =>
         State = [Fresh(pre) EXCEPT
                    !.soundsEnabled = ~pre.soundsEnabled,
                    !.soundToggleText =
                       IF pre.soundsEnabled THEN "Enable Sounds" ELSE "Disable Sounds"]

C10_Witness ==
  /\ page = "popup" /\ ev.kind = "move" /\ pre.soundsEnabled
  /\ pre.cursorInMOC /\ ~cursorInMOC /\ played = <<"exit">>

\* C11: a pointer-move event with no position changes nothing and plays no
\* cue, in both scripts; in the game the same holds for every pointer-move
\* event delivered while no session is running.
C11_NullAndIdleMovesAreNoOps ==
  (ev.kind = "move" /\ (ev.pos = Null \/ (page = "game" /\ ~pre.gameStarted)))
  => (State = Fresh(pre) /\ played = <<>> /\ consoleLog = <<>>)

\* A move onto the target, flag false, while no session is running.
C11_Witness ==
  /\ page = "game" /\ ev.kind = "move" /\ ~pre.gameStarted /\ ~pre.cursorInMOC
  /\ FirstIsTarget(ev.pos) /\ score = 0 /\ ~cursorInMOC /\ popupDisplay = "none"

\* C12: the splitter returns the input's keys minus text (and, in the game,
\* minus isTarget), each with the input's value.
SplitOf(out, in, dropped) ==
  /\ DOMAIN out = (DOMAIN in) \ dropped
  /\ \A key \in DOMAIN out : out[key] = in[key]

C12_SplitterKeepsTheRest ==
  /\ page = "game" =>
       /\ Len(mocList) = Len(json)
       /\ \A i \in 1 .. Len(json) : SplitOf(mocList[i].moc, json[i], {"text", "isTarget"})
  /\ page = "popup" => SplitOf(moc, json, {"text"})

\* A popup record with text and one more field: the text goes, the field stays.
C12_Witness ==
  /\ page = "popup" /\ ev.kind = "load"
  /\ {"text", "isTarget"} \subseteq DOMAIN json
  /\ DOMAIN moc = {"o3", "isTarget"} /\ moc.o3 = json.o3

\* C13 (as stated): the splitter is pure in both scripts: loading the regions
\* changes no state but the place that receives the returned record.
C13_SplitterIsPure ==
  ev.kind = "load" => State = [pre EXCEPT !.moc = moc, !.mocList = mocList]

\* C13 (amended): the game's splitter changes no state outside its return
\* value; the popup's changes exactly one module-level variable, mocText,
\* which it sets to the record's text when the record has one.
C13_SplitterWritesOnlyMocText ==
  ev.kind = "load" =>
    /\ page = "game" => State = [pre EXCEPT !.mocList = mocList]
    /\ page = "popup" =>
         State = [pre EXCEPT !.moc = moc,
                             !.mocText = IF "text" \in DOMAIN json THEN json.text
                                         ELSE pre.mocText]

C13_Witness ==
  /\ page = "popup" /\ ev.kind = "load" /\ "text" \in DOMAIN json
  /\ pre.mocText = NoText /\ mocText = json.text /\ mocText # NoText
  /\ popupText = pre.popupText

\* C14: a failing play() changes nothing but the log: the state after a
\* pointer event whose cue failed is the state the same event leaves when the
\* cue plays; entering the target with a failing success cue still adds 10
\* and ends the session.
HandlerRun(s, pos, ok) ==
  IF page = "game" THEN mouseMoveGame(Fresh(s), pos, ok) ELSE mouseMove(Fresh(s), pos, ok)

C14_PlaybackFailureChangesNothingElse ==
  (ev.kind = "move" /\ played # <<>> /\ ~ev.ok) =>
    /\ consoleLog = played
    /\ [State EXCEPT !.consoleLog = <<>>] = HandlerRun(pre, ev.pos, TRUE)
    /\ (page = "game" /\ played = <<"success">>) =>
         /\ score = pre.score + TargetPoints /\ SessionEnded
         /\ gameStatus = Congratulations /\ cursorInMOC /\ popupDisplay = "block"
    /\ (page = "game" /\ played = <<"error">>) =>
         /\ score = pre.score /\ gameStarted /\ timers = pre.timers
         /\ gameStatus = pre.gameStatus /\ cursorInMOC /\ popupDisplay = "block"
    /\ (page = "popup" /\ played = <<"enter">>) => (cursorInMOC /\ popupDisplay = "block")
    /\ (page = "popup" /\ played = <<"exit">>) => (~cursorInMOC /\ popupDisplay = "none")

C14_Witness ==
  /\ page = "game" /\ ev.kind = "move" /\ ~ev.ok /\ played = <<"success">>
  /\ consoleLog = <<"success">> /\ pre.gameStarted /\ ~gameStarted /\ score = TargetPoints

\* C15: with the timer firing, every running session ends, after at most 30
\* ticks, whatever pointer events and start clicks come in between.
C15_SessionEnds ==
  /\ (page = "game" /\ gameStarted) ~> ~gameStarted
  /\ []((page = "game" /\ gameStarted) => ticks < GameDuration)
  /\ [](page = "game" => ticks <= GameDuration)

\* A session in which the pointer entered a region and the 30th tick ended.
C15_Witness ==
  /\ page = "game" /\ ~gameStarted /\ ticks = GameDuration /\ timeLeft = 0
  /\ gameStatus = TimesUp(0) /\ cursorInMOC /\ played = <<>>

\* C16: a session ends once.  From its end to the next accepted start click
\* no timer is left to tick, and no event changes the status message or the
\* score: a success message is never replaced by the time's-up message, nor
\* the time's-up message or its score by a pointer event.
C16_SessionEndsOnce ==
  page = "game" =>
    /\ ~gameStarted => timers = {}
    /\ (ev.kind \in {"tick", "move"} /\ ~pre.gameStarted) =>
         (gameStatus = pre.gameStatus /\ score = pre.score /\ ~gameStarted)
    /\ (ev.kind = "tick" /\ ~gameStarted) => pre.gameStatus = InProgress
    /\ (ev.kind = "move" /\ pre.gameStarted /\ ~gameStarted) => pre.gameStatus = InProgress

\* The pointer comes back onto the target after a timeout.
C16_Witness ==
  /\ page = "game" /\ ev.kind = "move" /\ ~pre.gameStarted /\ ~pre.cursorInMOC
  /\ FirstIsTarget(ev.pos) /\ pre.gameStatus = TimesUp(0)
  /\ gameStatus = TimesUp(0) /\ score = 0

\* C17: the score is 0 or 10, a score of 10 means the session is over, and a
\* session that times out reports a final score of 0.
C17_ScoreZeroOrTen ==
  page = "game" =>
    /\ score \in {0, TargetPoints}
    /\ score = TargetPoints => ~gameStarted
    /\ Len(gameStatus) = 2 => gameStatus = TimesUp(0)

\* A game won after some ticks.
C17_Witness ==
  /\ page = "game" /\ ev.kind = "move" /\ ticks > 0 /\ score = TargetPoints
  /\ pre.score = 0 /\ ~gameStarted /\ gameStatus = Congratulations

\* C18: a start request while a session is running changes nothing, and there
\* is never more than one active interval.
C18_StartWhileRunningIsNoOp ==
  page = "game" =>
    /\ (ev.kind = "start" /\ pre.gameStarted) => State = Fresh(pre)
    /\ Cardinality(timers) <= 1

C18_Witness ==
  /\ page = "game" /\ ev.kind = "start" /\ pre.gameStarted
  /\ pre.timeLeft < GameDuration /\ timeLeft = pre.timeLeft /\ pre.cursorInMOC
  /\ Cardinality(timers) = 1

\* C19: in the game the popup is visible iff the pointer-inside flag is true;
\* a start click and a timer tick change neither, and a visible popup shows
\* the text of one of the loaded regions.
C19_PopupIffInside ==
  page = "game" =>
    /\ popupDisplay = "block" <=> cursorInMOC
    /\ ev.kind \in {"start", "tick"} =>
         (popupDisplay = pre.popupDisplay /\ cursorInMOC = pre.cursorInMOC
            /\ popupText = pre.popupText)
    /\ popupDisplay = "block" => \E i \in 1 .. Len(json) : popupText = json[i].text

\* A game started, and one timed out, with the popup of the last game still up.
C19_Witness ==
  /\ page = "game" /\ ev.kind = "tick" /\ ~gameStarted /\ timeLeft = 0
  /\ popupDisplay = "block" /\ cursorInMOC /\ popupText = json[1].text

====
